---- MODULE Spec2Model ----
(***************************************************************************)
(* Toucan card game: the trick rule engine of src/toucan_game/game.py as   *)
(* driven by src/toucan_game/menu.py.  Two players, a 52-card deck, a      *)
(* stock ("Can"), the in-progress trick record and the trick history.      *)
(***************************************************************************)
EXTENDS Integers, Sequences, FiniteSets, TLC

VARIABLES
    player,         \* player[p] = [username, is_active]        (Player)
    hand,           \* hand[p]: sequence of cards               (Player.hand.cards)
    deck,           \* temporary deck used during setup         (Game.deck)
    can,            \* stock of remaining cards                 (Game.can.cards)
    current_trick,  \* trick data during trick play             (Game.current_trick)
    played_tricks,  \* history of played tricks                 (Game.played_tricks)
    pc,             \* position inside play_trick, or "menu"
    msg,            \* outcome reported by the last operation
    dealt,          \* history: a deal has succeeded
    resolved,       \* history: tricks resolved since the last deal
    moves           \* history: successful leader/follower moves since the last deal

vars == <<player, hand, deck, can, current_trick, played_tricks, pc, msg,
          dealt, resolved, moves>>

(***************************************************************************)
(* Bounds of the model.                                                    *)
(***************************************************************************)
\* shuffle_deck draws one of this many permutations
NumShuffles == 2
\* a player types card numbers in 1..MaxPick
MaxPick == 3
\* leader moves are taken while fewer than this many tricks are in the history
MaxTricks == 2
\* deal_cards is exercised on decks of 0..MaxDeck cards
MaxDeck == 15
\* evaluate_trick is exercised on pairs over this many ranks
MaxEvalRanks == 4

\* replenish_hands is exercised on stocks of 0..MaxStock cards
MaxStock == 5

\* the moves of src/game.py are exercised on hands of 1..MaxHandV1 cards
MaxHandV1 == 4
\* claim_victory and challenge_victory are exercised on hands of 0..MaxHand cards
MaxHand == 28

\* validate_suit_pattern is exercised on pairs over this many ranks
MaxPatternRanks == 2

\* in a round played to its end the card numbers typed are among the first RoundPick
RoundPick == 2

(***************************************************************************)
(* Cards, players.                                                         *)
(***************************************************************************)
Players == {1, 2}
NoPlayer == 0
NoName == "None"
Usernames == {"ann", "bob"}

suits == <<"Hearts", "Diamonds", "Clubs", "Spades">>
ranks == <<"K", "Q", "J", "10", "9", "8", "7", "6", "5", "4", "3", "2", "A">>

Card(suit, rank) == [suit |-> suit, rank |-> rank]

\* Card.__str__: "<rank> of <suit>"
CardStr(card) == <<card.rank, "of", card.suit>>

\* Mapping for card rank values (Ace is low)
RANK_VALUES ==
    [r \in {ranks[i] : i \in 1..Len(ranks)} |->
        CHOOSE v \in 1..13 : ranks[14 - v] = r]

\* variant: the ace counted high
RankValueAceHigh(rank) ==
    IF rank = "A" THEN 14 ELSE IF rank \in DOMAIN RANK_VALUES THEN RANK_VALUES[rank] ELSE 0

\* RANK_VALUES.get(rank, 0)
RankValue(rank) == IF rank \in DOMAIN RANK_VALUES THEN RANK_VALUES[rank] ELSE 0

victory_threshold == 27

\* Game.create_deck: [Card(suit, rank) for suit in suits for rank in ranks]
create_deck ==
    [i \in 1..(Len(suits) * Len(ranks)) |->
        Card(suits[((i - 1) \div Len(ranks)) + 1], ranks[((i - 1) % Len(ranks)) + 1])]

\* random.shuffle: the k-th of the permutations the model draws from
\* (position i receives the card at position (a*(i-1)+b) mod n, a coprime to n).
ShuffleStride(k) == 2 * k + 15
ShuffleOffset(k) == 8 * k
Permute(d, k) ==
    [i \in 1..Len(d) |-> d[((ShuffleStride(k) * (i - 1) + ShuffleOffset(k)) % Len(d)) + 1]]

\* Game.shuffle_deck: refuses anything but a complete deck
shuffle_deck(d, k) ==
    IF d = <<>> \/ Len(d) # 52 THEN d ELSE Permute(d, k)

\* active_players = [p for p in (player1, player2) if p.is_active]
active_players ==
    SelectSeq(<<1, 2>>, LAMBDA p : player[p].is_active)

cards_needed(n) == 7 * n

(***************************************************************************)
(* Initial state: Game.__init__.                                           *)
(***************************************************************************)
EmptyTrick ==
    [leader |-> NoPlayer, leader_cards |-> <<>>, declaration |-> "",
     follower |-> NoPlayer, follower_cards |-> <<>>]

Init ==
    /\ player = [p \in Players |-> [username |-> NoName, is_active |-> FALSE]]
    /\ hand = [p \in Players |-> <<>>]
    /\ deck = <<>>
    /\ can = <<>>
    /\ current_trick = EmptyTrick
    /\ played_tricks = <<>>
    /\ pc = "menu"
    /\ msg = "none"
    /\ dealt = FALSE
    /\ resolved = 0
    /\ moves = 0

(***************************************************************************)
(* Setup phase.                                                            *)
(***************************************************************************)
\* variant: a registered slot takes the new username
register_player_overwrites(choice, username) ==
    /\ pc = "menu"
    /\ player' = [player EXCEPT ![choice] = [username |-> username, is_active |-> TRUE]]
    /\ msg' = IF player[choice].is_active THEN "already_registered" ELSE "registered"
    /\ UNCHANGED <<hand, deck, can, current_trick, played_tricks, pc,
                   dealt, resolved, moves>>

\* Game.register_player(choice) with the (non-empty) username typed at the prompt
register_player(choice, username) ==
    /\ pc = "menu"
    /\ IF ~player[choice].is_active
         THEN /\ player' = [player EXCEPT ![choice] =
                                [username |-> username, is_active |-> TRUE]]
              /\ msg' = "registered"
         ELSE /\ player' = player
              /\ msg' = "already_registered"
    /\ UNCHANGED <<hand, deck, can, current_trick, played_tricks, pc,
                   dealt, resolved, moves>>

\* variant: a deck of exactly the needed size is refused
NotEnoughCardsOffByOne(d, needed) == Len(d) <= needed

\* the deck is too small for the deal
NotEnoughCards(d, needed) == Len(d) < needed

\* the 7 cards popped from the end of the deck for the k-th active player (k = 0, 1)
DealtHand(d, k) == [i \in 1..7 |-> d[Len(d) - 7 * k - i + 1]]

\* variant: the rest of the deck is added to the old stock
StockAfterDealExtends(d, n) == can \o SubSeq(d, 1, Len(d) - cards_needed(n))

\* what is left of the deck after n players were dealt: the new stock
StockAfterDeal(d, n) == SubSeq(d, 1, Len(d) - cards_needed(n))

\* position (from 0) of player p among the active players
ActiveIndex(p) ==
    (CHOOSE i \in 1..Len(active_players) : active_players[i] = p) - 1

\* variant: both players are dealt a hand as soon as one of them is registered
deal_cards_everyone(d) ==
    IF active_players = <<>>
      THEN /\ msg' = "no_players"
           /\ deck' = d
           /\ UNCHANGED <<hand, can, dealt, resolved, moves>>
      ELSE /\ hand' = [p \in Players |-> DealtHand(d, p - 1)]
           /\ can' = StockAfterDeal(d, 2)
           /\ deck' = <<>>
           /\ msg' = "dealt"
           /\ dealt' = TRUE
           /\ resolved' = 0
           /\ moves' = 0

\* Game.deal_cards, run on self.deck = d
deal_cards(d) ==
    IF active_players = <<>>
      THEN /\ msg' = "no_players"
           /\ deck' = d
           /\ UNCHANGED <<hand, can, dealt, resolved, moves>>
      ELSE IF NotEnoughCards(d, cards_needed(Len(active_players)))
        THEN /\ msg' = "not_enough_cards"
             /\ deck' = d
             /\ UNCHANGED <<hand, can, dealt, resolved, moves>>
        ELSE /\ hand' = [p \in Players |->
                            IF player[p].is_active
                              THEN DealtHand(d, ActiveIndex(p))
                              ELSE hand[p]]
             /\ can' = StockAfterDeal(d, Len(active_players))
             /\ deck' = <<>>
             /\ msg' = "dealt"
             /\ dealt' = TRUE
             /\ resolved' = 0
             /\ moves' = 0

\* menu option N: create_deck, shuffle_deck, deal_cards
MenuNewRound ==
    /\ pc = "menu"
    /\ \E k \in 1..NumShuffles : deal_cards(shuffle_deck(create_deck, k))
    /\ UNCHANGED <<player, current_trick, played_tricks, pc>>

\* Game.start_new_round
start_new_round ==
    /\ pc = "menu"
    /\ IF active_players = <<>>
         THEN /\ msg' = "no_players"
              /\ UNCHANGED <<hand, deck, can, current_trick, played_tricks,
                             dealt, resolved, moves>>
         ELSE /\ played_tricks' = <<>>
              /\ current_trick' = EmptyTrick
              /\ \E k \in 1..NumShuffles : deal_cards(shuffle_deck(create_deck, k))
    /\ UNCHANGED <<player, pc>>

\* Game.show_status / display_help: display only
show_status ==
    /\ pc = "menu"
    /\ UNCHANGED vars

(***************************************************************************)
(* Trick-play phase.                                                       *)
(***************************************************************************)
Max(a, b) == IF a >= b THEN a ELSE b
Min(a, b) == IF a <= b THEN a ELSE b

\* indices = [int(i) - 1 for i in indices]: the typed card numbers, from 0
Indices(n1, n2) == <<n1 - 1, n2 - 1>>

\* the selection loop accepts the indices: in range and different
ValidSelection(cards, indices) ==
    /\ \A k \in 1..2 : ~(indices[k] < 0 \/ indices[k] >= Len(cards))
    /\ indices[1] # indices[2]

\* variant: the pair keeps the order in which the numbers were typed
SelectedCardsAsTyped(cards, indices) ==
    <<cards[indices[1] + 1], cards[indices[2] + 1]>>

\* [cards[i] for i in sorted(indices, reverse=True)]
SelectedCards(cards, indices) ==
    <<cards[Max(indices[1], indices[2]) + 1], cards[Min(indices[1], indices[2]) + 1]>>

\* for i in sorted(indices, reverse=True): del cards[i]
RemoveSelected(cards, indices) ==
    LET hi == Max(indices[1], indices[2]) + 1
        lo == Min(indices[1], indices[2]) + 1
        keep == SelectSeq([i \in 1..Len(cards) |-> i], LAMBDA i : i # hi /\ i # lo)
    IN  [k \in 1..Len(keep) |-> cards[keep[k]]]

\* variant: the next leader stored by evaluate_trick leads when registered
DetermineLeaderStored ==
    IF current_trick.leader \in Players /\ player[current_trick.leader].is_active
      THEN current_trick.leader
    ELSE IF player[1].is_active THEN 1
    ELSE IF player[2].is_active THEN 2
    ELSE NoPlayer

\* leader_move: "Determine leader"
DetermineLeader ==
    IF player[1].is_active THEN 1
    ELSE IF player[2].is_active THEN 2
    ELSE NoPlayer

\* follower_move: "Identify follower" (both players are registered)
IdentifyFollower ==
    IF current_trick.leader = 1 THEN 2 ELSE 1

\* variant: play_trick goes on to the follower after a failed leader move
leader_move_unchecked ==
    /\ pc = "menu"
    /\ Len(played_tricks) < MaxTricks
    /\ LET leader == DetermineLeader IN
       IF leader = NoPlayer
         THEN /\ msg' = "no_players"
              /\ pc' = "follower_move"
              /\ UNCHANGED <<hand, current_trick, moves>>
         ELSE IF Len(hand[leader]) < 2
           THEN /\ msg' = "leader_not_enough_cards"
                /\ pc' = "follower_move"
                /\ UNCHANGED <<hand, current_trick, moves>>
           ELSE \E n1, n2 \in 1..MaxPick, declaration \in {"high", "low"} :
                  LET indices == Indices(n1, n2) IN
                  /\ ValidSelection(hand[leader], indices)
                  /\ hand' = [hand EXCEPT ![leader] = RemoveSelected(@, indices)]
                  /\ current_trick' =
                        [current_trick EXCEPT
                            !.leader = leader,
                            !.leader_cards = SelectedCards(hand[leader], indices),
                            !.declaration = declaration]
                  /\ msg' = "leader_played"
                  /\ pc' = "follower_move"
                  /\ moves' = moves + 1
    /\ UNCHANGED <<player, deck, can, played_tricks, dealt, resolved>>

\* Game.leader_move, first step of play_trick (menu option T)
leader_move ==
    /\ pc = "menu"
    /\ Len(played_tricks) < MaxTricks
    /\ LET leader == DetermineLeader IN
       IF leader = NoPlayer
         THEN /\ msg' = "no_players"
              /\ UNCHANGED <<hand, current_trick, pc, moves>>
         ELSE IF Len(hand[leader]) < 2
           THEN /\ msg' = "leader_not_enough_cards"
                /\ UNCHANGED <<hand, current_trick, pc, moves>>
           ELSE \E n1, n2 \in 1..MaxPick, declaration \in {"high", "low"} :
                  LET indices == Indices(n1, n2) IN
                  /\ ValidSelection(hand[leader], indices)
                  /\ hand' = [hand EXCEPT ![leader] = RemoveSelected(@, indices)]
                  /\ current_trick' =
                        [current_trick EXCEPT
                            !.leader = leader,
                            !.leader_cards = SelectedCards(hand[leader], indices),
                            !.declaration = declaration]
                  /\ msg' = "leader_played"
                  /\ pc' = "follower_move"
                  /\ moves' = moves + 1
    /\ UNCHANGED <<player, deck, can, played_tricks, dealt, resolved>>

\* Game.follower_move, second step of play_trick
follower_move ==
    /\ pc = "follower_move"
    /\ IF ~(player[1].is_active /\ player[2].is_active)
         THEN /\ msg' = "both_must_be_registered"
              /\ pc' = "menu"
              /\ UNCHANGED <<hand, current_trick, moves>>
         ELSE LET follower == IdentifyFollower IN
              IF Len(hand[follower]) < 2
                THEN /\ msg' = "follower_not_enough_cards"
                     /\ pc' = "menu"
                     /\ UNCHANGED <<hand, current_trick, moves>>
                ELSE \E n1, n2 \in 1..MaxPick :
                       LET indices == Indices(n1, n2) IN
                       /\ ValidSelection(hand[follower], indices)
                       /\ hand' = [hand EXCEPT ![follower] = RemoveSelected(@, indices)]
                       /\ current_trick' =
                             [current_trick EXCEPT
                                 !.follower = follower,
                                 !.follower_cards = SelectedCards(hand[follower], indices)]
                       /\ msg' = "follower_played"
                       /\ pc' = "evaluate_trick"
                       /\ moves' = moves + 1
    /\ UNCHANGED <<player, deck, can, played_tricks, dealt, resolved>>

\* "red" if suit in ["Hearts", "Diamonds"] else "black"
SuitColor(suit) == IF suit \in {"Hearts", "Diamonds"} THEN "red" ELSE "black"

\* variant: the Color case does not ask for two different suits
validate_suit_pattern_any_suits(leader_cards, follower_cards) ==
    IF leader_cards[1].suit = leader_cards[2].suit
      THEN /\ follower_cards[1].suit = follower_cards[2].suit
           /\ follower_cards[1].suit = leader_cards[1].suit
    ELSE IF SuitColor(leader_cards[1].suit) = SuitColor(leader_cards[2].suit)
      THEN /\ SuitColor(follower_cards[1].suit) = SuitColor(follower_cards[2].suit)
           /\ SuitColor(follower_cards[1].suit) = SuitColor(leader_cards[1].suit)
    ELSE SuitColor(follower_cards[1].suit) # SuitColor(follower_cards[2].suit)

\* variant: a Mixed pair is answered by two cards of one color
validate_suit_pattern_mixed_inverted(leader_cards, follower_cards) ==
    IF leader_cards[1].suit = leader_cards[2].suit
      THEN /\ follower_cards[1].suit = follower_cards[2].suit
           /\ follower_cards[1].suit = leader_cards[1].suit
    ELSE IF SuitColor(leader_cards[1].suit) = SuitColor(leader_cards[2].suit)
      THEN /\ SuitColor(follower_cards[1].suit) = SuitColor(follower_cards[2].suit)
           /\ SuitColor(follower_cards[1].suit) = SuitColor(leader_cards[1].suit)
           /\ follower_cards[1].suit # follower_cards[2].suit
    ELSE SuitColor(follower_cards[1].suit) = SuitColor(follower_cards[2].suit)

\* variant: the Color case looks at the color of the follower's first card only
validate_suit_pattern_first_color(leader_cards, follower_cards) ==
    IF leader_cards[1].suit = leader_cards[2].suit
      THEN /\ follower_cards[1].suit = follower_cards[2].suit
           /\ follower_cards[1].suit = leader_cards[1].suit
    ELSE IF SuitColor(leader_cards[1].suit) = SuitColor(leader_cards[2].suit)
      THEN /\ SuitColor(follower_cards[1].suit) = SuitColor(leader_cards[1].suit)
           /\ follower_cards[1].suit # follower_cards[2].suit
    ELSE SuitColor(follower_cards[1].suit) # SuitColor(follower_cards[2].suit)

\* Game.validate_suit_pattern
validate_suit_pattern(leader_cards, follower_cards) ==
    LET leader_suit1 == leader_cards[1].suit
        leader_suit2 == leader_cards[2].suit
        follower_suit1 == follower_cards[1].suit
        follower_suit2 == follower_cards[2].suit
        leader_color1 == SuitColor(leader_suit1)
        leader_color2 == SuitColor(leader_suit2)
        follower_color1 == SuitColor(follower_suit1)
        follower_color2 == SuitColor(follower_suit2)
    IN  IF leader_suit1 = leader_suit2
          THEN follower_suit1 = follower_suit2 /\ follower_suit1 = leader_suit1
        ELSE IF leader_color1 = leader_color2
          THEN /\ follower_color1 = follower_color2
               /\ follower_color1 = leader_color1
               /\ follower_suit1 # follower_suit2
        ELSE follower_color1 # follower_color2

\* variant: a tie on the first cards goes to the player who holds more cards
HighTieWinnerLongerHand(leader, follower, leader_cards, follower_cards) ==
    IF Len(hand[leader]) >= Len(hand[follower]) THEN leader ELSE follower

\* variant: a tie on the first cards goes to the leader at once
HighTieWinnerLeader(leader, follower, leader_cards, follower_cards) == leader

\* variant: the leader needs a strictly higher second card
HighTieWinnerStrict(leader, follower, leader_cards, follower_cards) ==
    IF RankValue(leader_cards[2].rank) > RankValue(follower_cards[2].rank)
      THEN leader ELSE follower

\* evaluate_trick, declaration 'high': the tie on the first cards
HighTieWinner(leader, follower, leader_cards, follower_cards) ==
    IF RankValue(leader_cards[2].rank) >= RankValue(follower_cards[2].rank)
      THEN leader ELSE follower

\* evaluate_trick, declaration 'high'
HighWinner(leader, follower, leader_cards, follower_cards) ==
    LET leader_value == RankValue(leader_cards[1].rank)
        follower_value == RankValue(follower_cards[1].rank)
    IN  IF leader_value > follower_value THEN leader
        ELSE IF leader_value < follower_value THEN follower
        ELSE HighTieWinner(leader, follower, leader_cards, follower_cards)

\* evaluate_trick, declaration 'low': the tie on the second cards
LowTieWinner(leader, follower, leader_cards, follower_cards) ==
    IF RankValue(leader_cards[1].rank) <= RankValue(follower_cards[1].rank)
      THEN leader ELSE follower

\* variant: 'low' compares the first cards before the second cards
LowWinnerFirstCard(leader, follower, leader_cards, follower_cards) ==
    LET leader_value == RankValue(leader_cards[1].rank)
        follower_value == RankValue(follower_cards[1].rank)
    IN  IF leader_value < follower_value THEN leader
        ELSE IF leader_value > follower_value THEN follower
        ELSE IF RankValue(leader_cards[2].rank) <= RankValue(follower_cards[2].rank)
          THEN leader ELSE follower

\* evaluate_trick, declaration 'low'
LowWinner(leader, follower, leader_cards, follower_cards) ==
    LET leader_value == RankValue(leader_cards[2].rank)
        follower_value == RankValue(follower_cards[2].rank)
    IN  IF leader_value < follower_value THEN leader
        ELSE IF leader_value > follower_value THEN follower
        ELSE LowTieWinner(leader, follower, leader_cards, follower_cards)

\* variant: the ranks are compared without the pattern check
TrickWinnerIgnoresPattern(t) ==
    IF t.declaration = "high"
      THEN HighWinner(t.leader, t.follower, t.leader_cards, t.follower_cards)
    ELSE LowWinner(t.leader, t.follower, t.leader_cards, t.follower_cards)

\* evaluate_trick: the winner of a complete trick t with a known declaration
TrickWinner(t) ==
    IF ~validate_suit_pattern(t.leader_cards, t.follower_cards)
      THEN t.leader
    ELSE IF t.declaration = "high"
      THEN HighWinner(t.leader, t.follower, t.leader_cards, t.follower_cards)
    ELSE LowWinner(t.leader, t.follower, t.leader_cards, t.follower_cards)

\* the record evaluate_trick appends to the history
TrickRecord(t, winner) ==
    [leader |-> player[t.leader].username,
     follower |-> player[t.follower].username,
     declaration |-> t.declaration,
     winner |-> player[winner].username,
     leader_cards |-> [i \in 1..Len(t.leader_cards) |-> CardStr(t.leader_cards[i])],
     follower_cards |-> [i \in 1..Len(t.follower_cards) |-> CardStr(t.follower_cards[i])]]

\* variant: the next leader is stored, nothing is cleared
NextTrickKeepsPairs(next_leader) == [current_trick EXCEPT !.leader = next_leader]

\* current_trick.clear(); current_trick['leader'] = next_leader
NextTrick(next_leader) == [EmptyTrick EXCEPT !.leader = next_leader]

\* variant: a resolved trick replaces the history
evaluate_trick_restarts_history ==
    /\ pc = "evaluate_trick"
    /\ IF current_trick.leader = NoPlayer \/ current_trick.follower = NoPlayer
         THEN /\ msg' = "incomplete_trick"
              /\ UNCHANGED <<current_trick, played_tricks, resolved>>
         ELSE IF current_trick.declaration \notin {"high", "low"}
           THEN /\ msg' = "unknown_declaration"
                /\ UNCHANGED <<current_trick, played_tricks, resolved>>
           ELSE LET winner == TrickWinner(current_trick) IN
                /\ played_tricks' = <<TrickRecord(current_trick, winner)>>
                /\ current_trick' = NextTrick(winner)
                /\ msg' = IF validate_suit_pattern(current_trick.leader_cards,
                                                    current_trick.follower_cards)
                             THEN "pattern_matched" ELSE "pattern_failed"
                /\ resolved' = resolved + 1
    /\ pc' = "replenish_hands"
    /\ UNCHANGED <<player, hand, deck, can, dealt, moves>>

\* variant: the cards of a resolved trick go back to the stock
evaluate_trick_returns_cards ==
    /\ pc = "evaluate_trick"
    /\ IF current_trick.leader = NoPlayer \/ current_trick.follower = NoPlayer
         THEN /\ msg' = "incomplete_trick"
              /\ UNCHANGED <<current_trick, played_tricks, resolved, can>>
         ELSE IF current_trick.declaration \notin {"high", "low"}
           THEN /\ msg' = "unknown_declaration"
                /\ UNCHANGED <<current_trick, played_tricks, resolved, can>>
           ELSE LET winner == TrickWinner(current_trick) IN
                /\ played_tricks' = Append(played_tricks, TrickRecord(current_trick, winner))
                /\ current_trick' = NextTrick(winner)
                /\ msg' = IF validate_suit_pattern(current_trick.leader_cards,
                                                    current_trick.follower_cards)
                             THEN "pattern_matched" ELSE "pattern_failed"
                /\ resolved' = resolved + 1
                /\ can' = can \o current_trick.leader_cards \o current_trick.follower_cards
    /\ pc' = "replenish_hands"
    /\ UNCHANGED <<player, hand, deck, dealt, moves>>

\* Game.evaluate_trick, third step of play_trick
evaluate_trick ==
    /\ pc = "evaluate_trick"
    /\ IF current_trick.leader = NoPlayer \/ current_trick.follower = NoPlayer
         THEN /\ msg' = "incomplete_trick"
              /\ UNCHANGED <<current_trick, played_tricks, resolved>>
         ELSE IF current_trick.declaration \notin {"high", "low"}
           THEN /\ msg' = "unknown_declaration"
                /\ UNCHANGED <<current_trick, played_tricks, resolved>>
           ELSE LET winner == TrickWinner(current_trick) IN
                /\ played_tricks' = Append(played_tricks, TrickRecord(current_trick, winner))
                /\ current_trick' = NextTrick(winner)
                /\ msg' = IF validate_suit_pattern(current_trick.leader_cards,
                                                    current_trick.follower_cards)
                             THEN "pattern_matched" ELSE "pattern_failed"
                /\ resolved' = resolved + 1
    /\ pc' = "replenish_hands"
    /\ UNCHANGED <<player, hand, deck, can, dealt, moves>>

\* variant: a player draws at most one card
cards_to_draw_single(stock) == Min(1, Len(stock))

\* variant: a player draws up to three cards, one more than a move removes
cards_to_draw_three(stock) == Min(3, Len(stock))

\* cards_to_draw = min(2, len(self.can.cards))
cards_to_draw(stock) == Min(2, Len(stock))

\* the cards popped from the end of the stock, in drawing order
DrawnCards(stock, n) == [i \in 1..n |-> stock[Len(stock) - i + 1]]

\* variant: the drawn cards are read but not popped
StockAfterDrawKeeps(stock, n) == stock

\* the stock after n cards were popped
StockAfterDraw(stock, n) == SubSeq(stock, 1, Len(stock) - n)

\* variant: player 1 leaves half of the stock to player 2
DrawForFairly(p, stock) ==
    IF ~player[p].is_active THEN 0
    ELSE IF p = 1 THEN Min(2, (Len(stock) + 1) \div 2)
    ELSE cards_to_draw(stock)

\* one turn of the loop of replenish_hands for player p on the given stock
DrawFor(p, stock) ==
    IF player[p].is_active THEN cards_to_draw(stock) ELSE 0

\* Game.replenish_hands, last step of play_trick
replenish_hands ==
    /\ pc = "replenish_hands"
    /\ LET n1 == DrawFor(1, can)
           can1 == StockAfterDraw(can, n1)
           n2 == DrawFor(2, can1)
       IN  /\ hand' = [p \in Players |->
                          IF p = 1 THEN hand[1] \o DrawnCards(can, n1)
                                   ELSE hand[2] \o DrawnCards(can1, n2)]
           /\ can' = StockAfterDraw(can1, n2)
    /\ msg' = "replenished"
    /\ pc' = "menu"
    /\ UNCHANGED <<player, deck, current_trick, played_tricks, dealt, resolved, moves>>

(***************************************************************************)
(* The menu-driven game.                                                   *)
(***************************************************************************)
Next ==
    \/ \E choice \in Players, username \in Usernames : register_player(choice, username)
    \/ MenuNewRound
    \/ start_new_round
    \/ show_status
    \/ leader_move
    \/ follower_move
    \/ evaluate_trick
    \/ replenish_hands

Spec == Init /\ [][Next]_vars

(***************************************************************************)
(* evaluate_trick on its own: every leader pair, follower pair and         *)
(* declaration over a few ranks of the four suits.                         *)
(***************************************************************************)
EvalRankOrder == <<"K", "2", "9", "A", "Q", "10", "J", "3", "8", "4", "7", "5", "6">>
EvalRanks == {EvalRankOrder[i] : i \in 1..MaxEvalRanks}
EvalCards == {Card(suits[i], r) : i \in 1..Len(suits), r \in EvalRanks}

InitEval ==
    /\ player = [p \in Players |->
                    [username |-> IF p = 1 THEN "ann" ELSE "bob", is_active |-> TRUE]]
    /\ hand = [p \in Players |-> <<>>]
    /\ deck = <<>>
    /\ can = <<>>
    /\ \E c1, c2, c3, c4 \in EvalCards, declaration \in {"high", "low"} :
          /\ Cardinality({c1, c2, c3, c4}) = 4
          /\ current_trick = [leader |-> 1, leader_cards |-> <<c1, c2>>,
                              declaration |-> declaration,
                              follower |-> 2, follower_cards |-> <<c3, c4>>]
    /\ played_tricks = <<>>
    /\ pc = "evaluate_trick"
    /\ msg = "follower_played"
    /\ dealt = TRUE
    /\ resolved = 0
    /\ moves = 2

NextEval == evaluate_trick

SpecEval == InitEval /\ [][NextEval]_vars

(***************************************************************************)
(* deal_cards on its own: decks of 0..MaxDeck cards (and the full deck),   *)
(* any registration, hands and stock left over from an earlier round.      *)
(***************************************************************************)
PriorHands == {<<>>, SubSeq(create_deck, 1, 3), SubSeq(create_deck, 1, 7)}
PriorStocks == {<<>>, SubSeq(create_deck, 20, 24)}
DeckSizes == {n \in 0..52 : n <= MaxDeck \/ n = 52}

InitDeal ==
    /\ \E a1, a2 \in BOOLEAN :
          player = [p \in Players |->
                       IF (p = 1 /\ a1) \/ (p = 2 /\ a2)
                         THEN [username |-> IF p = 1 THEN "ann" ELSE "bob",
                               is_active |-> TRUE]
                         ELSE [username |-> NoName, is_active |-> FALSE]]
    /\ \E h1, h2 \in PriorHands :
          /\ player[1].is_active \/ h1 = <<>>
          /\ player[2].is_active \/ h2 = <<>>
          /\ hand = [p \in Players |-> IF p = 1 THEN h1 ELSE h2]
    /\ \E k \in 1..NumShuffles, n \in DeckSizes :
          deck = SubSeq(Permute(create_deck, k), 1, n)
    /\ can \in PriorStocks
    /\ current_trick = EmptyTrick
    /\ played_tricks = <<>>
    /\ pc = "deal_cards"
    /\ msg = "none"
    /\ dealt = FALSE
    /\ resolved = 0
    /\ moves = 0

\* a direct call of Game.deal_cards on the deck the game holds
deal_cards_call ==
    /\ pc = "deal_cards"
    /\ deal_cards(deck)
    /\ pc' = "menu"
    /\ UNCHANGED <<player, current_trick, played_tricks>>

NextDeal == deal_cards_call

SpecDeal == InitDeal /\ [][NextDeal]_vars

(***************************************************************************)
(* The end of play_trick on its own: a complete trick on the table, a      *)
(* stock of 0..MaxStock cards, hands of 1, 3 or 5 cards.                   *)
(***************************************************************************)
InitReplenish ==
    /\ player = [p \in Players |->
                    [username |-> IF p = 1 THEN "ann" ELSE "bob", is_active |-> TRUE]]
    /\ \E k \in 1..NumShuffles, n \in 0..MaxStock, s1, s2 \in {1, 3, 5},
          leader \in Players, declaration \in {"high", "low"} :
          LET d == Permute(create_deck, k) IN
          /\ deck = SubSeq(d, 1, 38)
          /\ can = SubSeq(d, 1, n)
          /\ hand = [p \in Players |->
                        IF p = 1 THEN SubSeq(d, 39, 38 + s1) ELSE SubSeq(d, 44, 43 + s2)]
          /\ current_trick = [leader |-> leader,
                              leader_cards |-> <<d[49], d[50]>>,
                              declaration |-> declaration,
                              follower |-> 3 - leader,
                              follower_cards |-> <<d[51], d[52]>>]
    /\ played_tricks = <<>>
    /\ pc = "evaluate_trick"
    /\ msg = "follower_played"
    /\ dealt = TRUE
    /\ resolved = 0
    /\ moves = 2

NextReplenish == evaluate_trick \/ replenish_hands

SpecReplenish == InitReplenish /\ [][NextReplenish]_vars

(***************************************************************************)
(* Victory claims and challenges.                                          *)
(***************************************************************************)
\* what claim_victory and challenge_victory report for a player
ClaimValid(p) == IF p = 1 THEN "claim_valid_1" ELSE "claim_valid_2"
ClaimInvalid(p) == IF p = 1 THEN "claim_invalid_1" ELSE "claim_invalid_2"
ChallengeValid(p) == IF p = 1 THEN "challenge_valid_1" ELSE "challenge_valid_2"
ChallengeInvalid(p) == IF p = 1 THEN "challenge_invalid_1" ELSE "challenge_invalid_2"

\* what the menu announces: the winner of the game, or a failed challenge
Wins(p) == IF p = 1 THEN "player1_wins" ELSE "player2_wins"
WinsByChallenge(p) ==
    IF p = 1 THEN "player1_challenged_and_wins" ELSE "player2_challenged_and_wins"
ChallengeFailed(p) == IF p = 1 THEN "challenge_failed_1" ELSE "challenge_failed_2"

\* variant: the hand has to exceed the threshold
HasEnoughCardsStrict(p) == Len(hand[p]) > victory_threshold

\* len(player.hand) >= self.victory_threshold
HasEnoughCards(p) == Len(hand[p]) >= victory_threshold

\* variant: a valid claim takes the stock into the claimant's hand
claim_victory_collects(p) ==
    /\ pc = "menu"
    /\ msg' = IF HasEnoughCards(p) THEN ClaimValid(p) ELSE ClaimInvalid(p)
    /\ hand' = IF HasEnoughCards(p) THEN [hand EXCEPT ![p] = @ \o can] ELSE hand
    /\ can' = IF HasEnoughCards(p) THEN <<>> ELSE can
    /\ UNCHANGED <<player, deck, current_trick, played_tricks, pc,
                   dealt, resolved, moves>>

\* Game.claim_victory
claim_victory(p) ==
    /\ pc = "menu"
    /\ msg' = IF HasEnoughCards(p) THEN ClaimValid(p) ELSE ClaimInvalid(p)
    /\ UNCHANGED <<player, hand, deck, can, current_trick, played_tricks, pc,
                   dealt, resolved, moves>>

\* Game.challenge_victory
challenge_victory(challenger) ==
    /\ pc = "menu"
    /\ msg' = IF HasEnoughCards(challenger) THEN ChallengeValid(challenger)
                                            ELSE ChallengeInvalid(challenger)
    /\ UNCHANGED <<player, hand, deck, can, current_trick, played_tricks, pc,
                   dealt, resolved, moves>>

\* the hand size the menu asks of a claimant
menu_threshold == 27

\* the players the menu accepts as claimant; it takes the first one
MenuClaimants == {p \in Players : player[p].is_active /\ Len(hand[p]) >= menu_threshold}
MenuClaimant == CHOOSE p \in MenuClaimants : \A q \in MenuClaimants : p <= q

\* menu choice V
MenuClaimVictory ==
    /\ pc = "menu"
    /\ IF MenuClaimants # {}
         THEN IF HasEnoughCards(MenuClaimant)
                THEN /\ msg' = Wins(MenuClaimant)
                     /\ pc' = "game_over"
                ELSE /\ msg' = ClaimInvalid(MenuClaimant)
                     /\ pc' = pc
         ELSE /\ msg' = "no_claimant"
              /\ pc' = pc
    /\ UNCHANGED <<player, hand, deck, can, current_trick, played_tricks,
                   dealt, resolved, moves>>

\* menu choice C
MenuChallengeVictory ==
    /\ pc = "menu"
    /\ IF MenuClaimants # {}
         THEN LET challenger == IF MenuClaimant = 1 THEN 2 ELSE 1 IN
              IF HasEnoughCards(challenger)
                THEN /\ msg' = WinsByChallenge(challenger)
                     /\ pc' = "game_over"
                ELSE /\ msg' = ChallengeFailed(challenger)
                     /\ pc' = pc
         ELSE /\ msg' = "no_valid_challenger"
              /\ pc' = pc
    /\ UNCHANGED <<player, hand, deck, can, current_trick, played_tricks,
                   dealt, resolved, moves>>

(***************************************************************************)
(* Claims and challenges on their own: hands of 0..MaxHand cards cut from  *)
(* one shuffled deck, the rest of the deck in the stock.                   *)
(***************************************************************************)
InitVictory ==
    /\ \E a1, a2 \in BOOLEAN :
          player = [p \in Players |->
                       IF (p = 1 /\ a1) \/ (p = 2 /\ a2)
                         THEN [username |-> IF p = 1 THEN "ann" ELSE "bob",
                               is_active |-> TRUE]
                         ELSE [username |-> NoName, is_active |-> FALSE]]
    /\ \E k \in 1..NumShuffles, n1, n2 \in 0..MaxHand :
          LET d == Permute(create_deck, k) IN
          /\ n1 + n2 <= 52
          /\ player[1].is_active \/ n1 = 0
          /\ player[2].is_active \/ n2 = 0
          /\ hand = [p \in Players |->
                        IF p = 1 THEN SubSeq(d, 1, n1) ELSE SubSeq(d, n1 + 1, n1 + n2)]
          /\ can = SubSeq(d, n1 + n2 + 1, 52)
          /\ deck = can
    /\ current_trick = EmptyTrick
    /\ played_tricks = <<>>
    /\ pc = "menu"
    /\ msg = "none"
    /\ dealt = TRUE
    /\ resolved = 0
    /\ moves = 0

NextVictory ==
    \/ \E p \in Players : claim_victory(p)
    \/ \E p \in Players : challenge_victory(p)
    \/ MenuClaimVictory
    \/ MenuChallengeVictory

SpecVictory == InitVictory /\ [][NextVictory]_vars

(***************************************************************************)
(* The whole menu: the game from its construction with the victory options *)
(* V and C next to registration, round start, status and trick play.       *)
(***************************************************************************)
NextMenu ==
    \/ Next
    \/ MenuClaimVictory
    \/ MenuChallengeVictory

SpecMenu == Init /\ [][NextMenu]_vars

(***************************************************************************)
(* The first version of the engine (src/game.py): same state, no trick     *)
(* history, no replenishment; a rejected input ends the move.  Its moves   *)
(* are exercised on hands of 1..MaxHandV1 cards left from a deal.          *)
(***************************************************************************)
InitV1 ==
    /\ \E a1, a2 \in BOOLEAN :
          player = [p \in Players |->
                       IF (p = 1 /\ a1) \/ (p = 2 /\ a2)
                         THEN [username |-> IF p = 1 THEN "ann" ELSE "bob",
                               is_active |-> TRUE]
                         ELSE [username |-> NoName, is_active |-> FALSE]]
    /\ \E k \in 1..NumShuffles, s1, s2 \in 1..MaxHandV1 :
          LET d == shuffle_deck(create_deck, k) IN
          /\ hand = [p \in Players |->
                        IF player[p].is_active
                          THEN SubSeq(DealtHand(d, ActiveIndex(p)), 1,
                                      IF p = 1 THEN s1 ELSE s2)
                          ELSE <<>>]
          /\ player[1].is_active \/ s1 = 1
          /\ player[2].is_active \/ s2 = 1
          /\ can = StockAfterDeal(d, Len(active_players))
    /\ deck = <<>>
    /\ current_trick = EmptyTrick
    /\ played_tricks = <<>>
    /\ pc = "menu"
    /\ msg = "none"
    /\ dealt = TRUE
    /\ resolved = 0
    /\ moves = 0

\* Game.register_player(choice) of src/game.py; username "" is an empty input
register_player_v1(choice, username) ==
    /\ pc = "menu"
    /\ IF ~player[choice].is_active
         THEN IF username = ""
                THEN /\ player' = player
                     /\ msg' = "username_empty"
                ELSE /\ player' = [player EXCEPT ![choice] =
                                      [username |-> username, is_active |-> TRUE]]
                     /\ msg' = "registered"
         ELSE /\ player' = player
              /\ msg' = "already_registered"
    /\ UNCHANGED <<hand, deck, can, current_trick, played_tricks, pc,
                   dealt, resolved, moves>>

\* what a player may type at the selection prompt: two numbers, a wrong number
\* of tokens, or tokens that are not numbers
SelectionInputs ==
    {[kind |-> "numbers", n1 |-> a, n2 |-> b] : a, b \in 0..MaxPick}
        \cup {[kind |-> k, n1 |-> 0, n2 |-> 0] : k \in {"wrong_count", "not_numeric"}}

\* del cards[i], i counted from 0
DeleteAt(cards, i) == SubSeq(cards, 1, i) \o SubSeq(cards, i + 2, Len(cards))

\* the try block of leader_move and follower_move of src/game.py: the outcome
\* of the selection, the hand it leaves and the cards it selected
SelectV1(cards, input) ==
    IF input.kind = "wrong_count"
      THEN [status |-> "rejected_count", hand |-> cards, selected |-> <<>>]
    ELSE IF input.kind = "not_numeric"
      THEN [status |-> "rejected_not_numeric", hand |-> cards, selected |-> <<>>]
    ELSE LET indices == <<input.n1 - 1, input.n2 - 1>>
             hi == Max(indices[1], indices[2])
             lo == Min(indices[1], indices[2])
         IN  IF \E k \in 1..2 : indices[k] < 0 \/ indices[k] >= Len(cards)
               THEN [status |-> "rejected_out_of_range", hand |-> cards,
                     selected |-> <<>>]
             ELSE IF lo >= Len(DeleteAt(cards, hi))
               THEN [status |-> "rejected_exception", hand |-> DeleteAt(cards, hi),
                     selected |-> <<>>]
             ELSE [status |-> "selected",
                   hand |-> DeleteAt(DeleteAt(cards, hi), lo),
                   selected |-> <<cards[hi + 1], cards[lo + 1]>>]

\* Game.leader_move of src/game.py
leader_move_v1 ==
    /\ pc = "menu"
    /\ resolved < MaxTricks
    /\ LET leader == DetermineLeader IN
       IF leader = NoPlayer
         THEN /\ msg' = "no_players"
              /\ UNCHANGED <<hand, current_trick, pc, moves>>
         ELSE IF Len(hand[leader]) < 2
           THEN /\ msg' = "leader_not_enough_cards"
                /\ UNCHANGED <<hand, current_trick, pc, moves>>
           ELSE \E input \in SelectionInputs, declaration \in {"high", "low", "mid"} :
                  LET sel == SelectV1(hand[leader], input) IN
                  /\ hand' = [hand EXCEPT ![leader] = sel.hand]
                  /\ IF sel.status # "selected"
                       THEN /\ msg' = sel.status
                            /\ UNCHANGED <<current_trick, pc, moves>>
                       ELSE IF declaration \notin {"high", "low"}
                         THEN /\ msg' = "rejected_declaration"
                              /\ UNCHANGED <<current_trick, pc, moves>>
                         ELSE /\ current_trick' =
                                    [current_trick EXCEPT
                                        !.leader = leader,
                                        !.leader_cards = sel.selected,
                                        !.declaration = declaration]
                              /\ msg' = "leader_played"
                              /\ pc' = "follower_move"
                              /\ moves' = moves + 1
    /\ UNCHANGED <<player, deck, can, played_tricks, dealt, resolved>>

\* Game.follower_move of src/game.py
follower_move_v1 ==
    /\ pc = "follower_move"
    /\ IF ~(player[1].is_active /\ player[2].is_active)
         THEN /\ msg' = "both_must_be_registered"
              /\ pc' = "menu"
              /\ UNCHANGED <<hand, current_trick, moves>>
         ELSE LET follower == IdentifyFollower IN
              IF Len(hand[follower]) < 2
                THEN /\ msg' = "follower_not_enough_cards"
                     /\ pc' = "menu"
                     /\ UNCHANGED <<hand, current_trick, moves>>
                ELSE \E input \in SelectionInputs :
                       LET sel == SelectV1(hand[follower], input) IN
                       /\ hand' = [hand EXCEPT ![follower] = sel.hand]
                       /\ IF sel.status # "selected"
                            THEN /\ msg' = sel.status
                                 /\ pc' = "menu"
                                 /\ UNCHANGED <<current_trick, moves>>
                            ELSE /\ current_trick' =
                                       [current_trick EXCEPT
                                           !.follower = follower,
                                           !.follower_cards = sel.selected]
                                 /\ msg' = "follower_played"
                                 /\ pc' = "evaluate_trick"
                                 /\ moves' = moves + 1
    /\ UNCHANGED <<player, deck, can, played_tricks, dealt, resolved>>

\* variant: a tie of the cards compared first goes to the leader
TrickWinnerV1NoTieBreak(t) ==
    IF t.declaration = "high"
      THEN IF RankValue(t.leader_cards[1].rank) >= RankValue(t.follower_cards[1].rank)
             THEN t.leader
           ELSE t.follower
      ELSE IF RankValue(t.leader_cards[2].rank) <= RankValue(t.follower_cards[2].rank)
             THEN t.leader
           ELSE t.follower

\* the winner evaluate_trick of src/game.py announces for a complete trick
TrickWinnerV1(t) ==
    IF t.declaration = "high"
      THEN IF RankValue(t.leader_cards[1].rank) > RankValue(t.follower_cards[1].rank)
             THEN t.leader
           ELSE IF RankValue(t.leader_cards[1].rank) < RankValue(t.follower_cards[1].rank)
             THEN t.follower
           ELSE IF RankValue(t.leader_cards[2].rank) >= RankValue(t.follower_cards[2].rank)
             THEN t.leader
           ELSE t.follower
      ELSE IF RankValue(t.leader_cards[2].rank) < RankValue(t.follower_cards[2].rank)
             THEN t.leader
           ELSE IF RankValue(t.leader_cards[2].rank) > RankValue(t.follower_cards[2].rank)
             THEN t.follower
           ELSE IF RankValue(t.leader_cards[1].rank) <= RankValue(t.follower_cards[1].rank)
             THEN t.leader
           ELSE t.follower

\* what evaluate_trick of src/game.py prints
TrickWonBy(p) == IF p = 1 THEN "trick_won_by_1" ELSE "trick_won_by_2"

\* Game.evaluate_trick of src/game.py, last step of its play_trick
evaluate_trick_v1 ==
    /\ pc = "evaluate_trick"
    /\ IF current_trick.leader = NoPlayer \/ current_trick.follower = NoPlayer
         THEN /\ msg' = "incomplete_trick"
              /\ UNCHANGED <<current_trick, resolved>>
         ELSE IF current_trick.declaration \notin {"high", "low"}
           THEN /\ msg' = "unknown_declaration"
                /\ UNCHANGED <<current_trick, resolved>>
           ELSE /\ msg' = TrickWonBy(TrickWinnerV1(current_trick))
                /\ current_trick' = EmptyTrick
                /\ resolved' = resolved + 1
    /\ pc' = "menu"
    /\ UNCHANGED <<player, hand, deck, can, played_tricks, dealt, moves>>

\* main() of src/game.py
NextV1 ==
    \/ \E choice \in Players, username \in {"ann", ""} :
          register_player_v1(choice, username)
    \/ show_status
    \/ leader_move_v1
    \/ follower_move_v1
    \/ evaluate_trick_v1

SpecV1 == InitV1 /\ [][NextV1]_vars

(***************************************************************************)
(* validate_suit_pattern on its own: any leader pair against any follower  *)
(* pair, the leader's own pair included.                                   *)
(***************************************************************************)
PatternCards ==
    {Card(suits[i], EvalRankOrder[j]) : i \in 1..Len(suits), j \in 1..MaxPatternRanks}

InitPattern ==
    /\ player = [p \in Players |->
                    [username |-> IF p = 1 THEN "ann" ELSE "bob", is_active |-> TRUE]]
    /\ hand = [p \in Players |-> <<>>]
    /\ deck = <<>>
    /\ can = <<>>
    /\ \E c1, c2, c3, c4 \in PatternCards, declaration \in {"high", "low"} :
          /\ c1 # c2
          /\ c3 # c4
          /\ current_trick = [leader |-> 1, leader_cards |-> <<c1, c2>>,
                              declaration |-> declaration,
                              follower |-> 2, follower_cards |-> <<c3, c4>>]
    /\ played_tricks = <<>>
    /\ pc = "evaluate_trick"
    /\ msg = "follower_played"
    /\ dealt = TRUE
    /\ resolved = 0
    /\ moves = 2

NextPattern == evaluate_trick

SpecPattern == InitPattern /\ [][NextPattern]_vars

(***************************************************************************)
(* evaluate_trick in different surroundings: the same tricks with either   *)
(* player leading, either assignment of the usernames, empty or filled     *)
(* hands, stock and history.                                               *)
(***************************************************************************)
ResolveHands ==
    {[p \in Players |-> <<>>],
     [p \in Players |->
         IF p = 1 THEN <<Card("Hearts", "7"), Card("Clubs", "7"), Card("Spades", "6")>>
                  ELSE <<Card("Diamonds", "7"), Card("Clubs", "5")>>]}
ResolveStocks == {<<>>, <<Card("Diamonds", "5"), Card("Diamonds", "6")>>}
ResolveHistories(u1, u2) ==
    {<<>>,
     <<[leader |-> u1, follower |-> u2, declaration |-> "low", winner |-> u2,
        leader_cards |-> <<CardStr(Card("Hearts", "4")), CardStr(Card("Hearts", "5"))>>,
        follower_cards |-> <<CardStr(Card("Hearts", "6")), CardStr(Card("Hearts", "8"))>>]>>}

InitResolve ==
    /\ \E u1, u2 \in Usernames :
          /\ u1 # u2
          /\ player = [p \in Players |->
                          [username |-> IF p = 1 THEN u1 ELSE u2, is_active |-> TRUE]]
          /\ played_tricks \in ResolveHistories(u1, u2)
    /\ hand \in ResolveHands
    /\ deck = <<>>
    /\ can \in ResolveStocks
    /\ \E c1, c2, c3, c4 \in PatternCards, declaration \in {"high", "low"},
          leader \in Players :
          /\ Cardinality({c1, c2, c3, c4}) = 4
          /\ current_trick = [leader |-> leader, leader_cards |-> <<c1, c2>>,
                              declaration |-> declaration,
                              follower |-> 3 - leader, follower_cards |-> <<c3, c4>>]
    /\ pc = "evaluate_trick"
    /\ msg = "follower_played"
    /\ dealt = TRUE
    /\ resolved = Len(played_tricks)
    /\ moves = 2 * Len(played_tricks) + 2

NextResolve == evaluate_trick

SpecResolve == InitResolve /\ [][NextResolve]_vars

(***************************************************************************)
(* A whole round of the menu-driven game: the state after a round start,   *)
(* then trick after trick until the hands run out.  No new deal; the card  *)
(* numbers typed are among the first RoundPick.                            *)
(***************************************************************************)
InitRound ==
    /\ \E a1, a2 \in BOOLEAN :
          /\ a1 \/ a2
          /\ player = [p \in Players |->
                          IF (p = 1 /\ a1) \/ (p = 2 /\ a2)
                            THEN [username |-> IF p = 1 THEN "ann" ELSE "bob",
                                  is_active |-> TRUE]
                            ELSE [username |-> NoName, is_active |-> FALSE]]
    /\ \E k \in 1..NumShuffles :
          LET d == shuffle_deck(create_deck, k) IN
          /\ hand = [p \in Players |->
                        IF player[p].is_active THEN DealtHand(d, ActiveIndex(p)) ELSE <<>>]
          /\ can = StockAfterDeal(d, Len(active_players))
    /\ deck = <<>>
    /\ current_trick = EmptyTrick
    /\ played_tricks = <<>>
    /\ pc = "menu"
    /\ msg = "dealt"
    /\ dealt = TRUE
    /\ resolved = 0
    /\ moves = 0

\* Game.leader_move in a round played to its end
leader_move_round ==
    /\ pc = "menu"
    /\ LET leader == DetermineLeader IN
       IF leader = NoPlayer
         THEN /\ msg' = "no_players"
              /\ UNCHANGED <<hand, current_trick, pc, moves>>
         ELSE IF Len(hand[leader]) < 2
           THEN /\ msg' = "leader_not_enough_cards"
                /\ UNCHANGED <<hand, current_trick, pc, moves>>
           ELSE \E n1, n2 \in 1..RoundPick, declaration \in {"high", "low"} :
                  LET indices == Indices(n1, n2) IN
                  /\ ValidSelection(hand[leader], indices)
                  /\ hand' = [hand EXCEPT ![leader] = RemoveSelected(@, indices)]
                  /\ current_trick' =
                        [current_trick EXCEPT
                            !.leader = leader,
                            !.leader_cards = SelectedCards(hand[leader], indices),
                            !.declaration = declaration]
                  /\ msg' = "leader_played"
                  /\ pc' = "follower_move"
                  /\ moves' = moves + 1
    /\ UNCHANGED <<player, deck, can, played_tricks, dealt, resolved>>

\* Game.follower_move in a round played to its end
follower_move_round ==
    /\ pc = "follower_move"
    /\ IF ~(player[1].is_active /\ player[2].is_active)
         THEN /\ msg' = "both_must_be_registered"
              /\ pc' = "menu"
              /\ UNCHANGED <<hand, current_trick, moves>>
         ELSE LET follower == IdentifyFollower IN
              IF Len(hand[follower]) < 2
                THEN /\ msg' = "follower_not_enough_cards"
                     /\ pc' = "menu"
                     /\ UNCHANGED <<hand, current_trick, moves>>
                ELSE \E n1, n2 \in 1..RoundPick :
                       LET indices == Indices(n1, n2) IN
                       /\ ValidSelection(hand[follower], indices)
                       /\ hand' = [hand EXCEPT ![follower] = RemoveSelected(@, indices)]
                       /\ current_trick' =
                             [current_trick EXCEPT
                                 !.follower = follower,
                                 !.follower_cards = SelectedCards(hand[follower], indices)]
                       /\ msg' = "follower_played"
                       /\ pc' = "evaluate_trick"
                       /\ moves' = moves + 1
    /\ UNCHANGED <<player, deck, can, played_tricks, dealt, resolved>>

NextRound ==
    \/ \E choice \in Players, username \in Usernames : register_player(choice, username)
    \/ leader_move_round
    \/ follower_move_round
    \/ evaluate_trick
    \/ replenish_hands

SpecRound == InitRound /\ [][NextRound]_vars

(***************************************************************************)
(* Properties.                                                             *)
(***************************************************************************)
\* rank values as the rules state them: A = 1 (lowest) .. K = 13 (highest)
StatedRank ==
    [r \in {"A", "2", "3", "4", "5", "6", "7", "8", "9", "10", "J", "Q", "K"} |->
        CASE r = "A" -> 1 [] r = "2" -> 2 [] r = "3" -> 3 [] r = "4" -> 4
          [] r = "5" -> 5 [] r = "6" -> 6 [] r = "7" -> 7 [] r = "8" -> 8
          [] r = "9" -> 9 [] r = "10" -> 10 [] r = "J" -> 11 [] r = "Q" -> 12
          [] r = "K" -> 13]

\* the pattern class of a pair of cards: Flush, Color or Mixed
PatternClass(pair) ==
    IF pair[1].suit = pair[2].suit THEN "Flush"
    ELSE IF (pair[1].suit \in {"Hearts", "Diamonds"}) = (pair[2].suit \in {"Hearts", "Diamonds"})
      THEN "Color"
    ELSE "Mixed"

\* the stated matching rule: same class; Flush: same suit; Color: same color
StatedMatch(leaderPair, followerPair) ==
    /\ PatternClass(leaderPair) = PatternClass(followerPair)
    /\ PatternClass(leaderPair) = "Flush" => followerPair[1].suit = leaderPair[1].suit
    /\ PatternClass(leaderPair) = "Color" =>
          (followerPair[1].suit \in {"Hearts", "Diamonds"})
              = (leaderPair[1].suit \in {"Hearts", "Diamonds"})

\* a step of evaluate_trick that resolves the trick
Resolves ==
    /\ pc = "evaluate_trick"
    /\ pc' = "replenish_hands"
    /\ Len(played_tricks') = Len(played_tricks) + 1

\* the trick being resolved follows the leader's pattern
Matched == validate_suit_pattern(current_trick.leader_cards, current_trick.follower_cards)

\* the winner a resolving step carries forward, and the one it records
WinnerIs(p) ==
    /\ current_trick'.leader = p
    /\ played_tricks'[Len(played_tricks')].winner = player[p].username

\* the last record of the history, and a pair as the history prints it
LastTrick == played_tricks[Len(played_tricks)]
PairStr(r1, s1, r2, s2) == <<CardStr(Card(s1, r1)), CardStr(Card(s2, r2))>>

\* the state right after evaluate_trick resolved leader pair lp against follower
\* pair fp under declaration d, with player w as the winner
ResolvedAs(lp, fp, d, w) ==
    /\ pc = "replenish_hands"
    /\ played_tricks # <<>>
    /\ LastTrick.leader_cards = lp
    /\ LastTrick.follower_cards = fp
    /\ LastTrick.declaration = d
    /\ LastTrick.winner = player[w].username
    /\ current_trick = NextTrick(w)

HandsAndStock == Len(hand[1]) + Len(hand[2]) + Len(can)

\* C1: the player who makes the next leader move after a resolved trick is the
\* winner evaluate_trick left in the trick record.
C1_WinnerLeadsNextTrick ==
    [][(/\ pc = "menu" /\ pc' = "follower_move"
        /\ resolved > 0
        /\ current_trick.leader # NoPlayer
        /\ current_trick.leader_cards = <<>>)
       => current_trick'.leader = current_trick.leader]_vars

\* C2 as stated: within a round the two hands, the stock and 2 cards per
\* resolved trick always add up to 52.
C2_ConservationTwoPerTrick ==
    dealt => HandsAndStock + 2 * resolved = 52

\* C2 amended: within a round the two hands, the stock and 2 cards per successful
\* leader or follower move always add up to 52; a resolved trick took 4 cards
\* (two per player), so with no pair pending or abandoned the hands, the stock
\* and 4 cards per resolved trick add up to 52.
C2_ConservationTwoPerMove ==
    dealt =>
        /\ HandsAndStock + 2 * moves = 52
        /\ (pc = "menu" /\ current_trick.leader_cards = <<>>)
              => HandsAndStock + 4 * resolved = 52

C2_Witness ==
    /\ dealt
    /\ pc = "menu"
    /\ msg = "replenished"
    /\ resolved = 2
    /\ HandsAndStock = 44

\* C3: a follower pair that does not match the leader's pattern still resolves
\* the trick, and the leader wins it, whatever the declaration and the ranks.
C3_PatternFailureLeaderWins ==
    [][(pc = "evaluate_trick" /\ ~Matched)
       => (Resolves /\ WinnerIs(current_trick.leader))]_vars

C3_Witness ==
    ResolvedAs(PairStr("9", "Hearts", "2", "Hearts"),
               PairStr("K", "Spades", "A", "Hearts"), "high", 1)

\* C4: validate_suit_pattern accepts a follower pair exactly when it has the
\* leader pair's pattern class and, for Flush, the leader's suit and, for Color,
\* the leader's color.
C4_PatternMatchRule ==
    [][pc = "evaluate_trick"
       => ((msg' = "pattern_matched")
             <=> StatedMatch(current_trick.leader_cards, current_trick.follower_cards))]_vars

C4_Witness ==
    /\ ResolvedAs(PairStr("9", "Hearts", "2", "Diamonds"),
                  PairStr("K", "Diamonds", "A", "Diamonds"), "high", 1)
    /\ msg = "pattern_failed"

\* C5: High, pattern matched, first cards of different rank value: the player
\* whose first card has the higher rank value (A = 1 .. K = 13) wins.
C5_HighFirstCardDecides ==
    [][(/\ pc = "evaluate_trick" /\ Matched
        /\ current_trick.declaration = "high"
        /\ StatedRank[current_trick.leader_cards[1].rank]
              # StatedRank[current_trick.follower_cards[1].rank])
       => /\ Resolves
          /\ WinnerIs(IF StatedRank[current_trick.leader_cards[1].rank]
                            > StatedRank[current_trick.follower_cards[1].rank]
                        THEN current_trick.leader ELSE current_trick.follower)]_vars

C5_Witness ==
    ResolvedAs(PairStr("A", "Hearts", "K", "Spades"),
               PairStr("2", "Clubs", "9", "Diamonds"), "high", 2)

\* C6 as stated: High, pattern matched, first cards of the same rank: the leader
\* wins whatever the second cards are.
C6_HighTieLeaderAlways ==
    [][(/\ pc = "evaluate_trick" /\ Matched
        /\ current_trick.declaration = "high"
        /\ current_trick.leader_cards[1].rank = current_trick.follower_cards[1].rank)
       => (Resolves /\ WinnerIs(current_trick.leader))]_vars

\* C6 amended: High, pattern matched, first cards of the same rank: the second
\* cards are compared; the leader wins when its second card is at least as high
\* as the follower's, the follower when its second card is strictly higher.
C6_HighTieSecondCardDecides ==
    [][(/\ pc = "evaluate_trick" /\ Matched
        /\ current_trick.declaration = "high"
        /\ current_trick.leader_cards[1].rank = current_trick.follower_cards[1].rank)
       => /\ Resolves
          /\ WinnerIs(IF StatedRank[current_trick.leader_cards[2].rank]
                            >= StatedRank[current_trick.follower_cards[2].rank]
                        THEN current_trick.leader ELSE current_trick.follower)]_vars

C6_Witness ==
    ResolvedAs(PairStr("K", "Hearts", "2", "Spades"),
               PairStr("K", "Diamonds", "9", "Clubs"), "high", 2)

\* C7: Low, pattern matched: second cards of different rank value: the player
\* with the lower second card wins; second cards tied: the first cards are
\* compared and the lower first card wins.
C7_LowSecondCardDecides ==
    [][(/\ pc = "evaluate_trick" /\ Matched
        /\ current_trick.declaration = "low")
       => LET l1 == StatedRank[current_trick.leader_cards[1].rank]
              l2 == StatedRank[current_trick.leader_cards[2].rank]
              f1 == StatedRank[current_trick.follower_cards[1].rank]
              f2 == StatedRank[current_trick.follower_cards[2].rank]
          IN  /\ Resolves
              /\ l2 < f2 => WinnerIs(current_trick.leader)
              /\ l2 > f2 => WinnerIs(current_trick.follower)
              /\ (l2 = f2 /\ l1 < f1) => WinnerIs(current_trick.leader)
              /\ (l2 = f2 /\ l1 > f1) => WinnerIs(current_trick.follower)]_vars

C7_Witness ==
    ResolvedAs(PairStr("K", "Hearts", "2", "Spades"),
               PairStr("9", "Diamonds", "2", "Clubs"), "low", 2)

\* C8: either declaration, pattern matched, both positions tied in rank: the
\* leader wins.
C8_FullTieLeaderWins ==
    [][(/\ pc = "evaluate_trick" /\ Matched
        /\ current_trick.leader_cards[1].rank = current_trick.follower_cards[1].rank
        /\ current_trick.leader_cards[2].rank = current_trick.follower_cards[2].rank)
       => (Resolves /\ WinnerIs(current_trick.leader))]_vars

C8_Witness ==
    ResolvedAs(PairStr("K", "Hearts", "2", "Spades"),
               PairStr("K", "Diamonds", "2", "Clubs"), "low", 1)

\* a step of deal_cards, and its number of active players
DealStep == pc = "deal_cards" /\ pc' = "menu"
NumActive == Cardinality({p \in Players : player[p].is_active})

\* C9: a successful deal_cards leaves every active player with exactly 7 cards
\* (whatever the hand held), the stock with exactly the len(deck) - 7 * active
\* cards left of the deck and nothing else, and the temporary deck empty.
C9_DealResult ==
    [][(DealStep /\ msg' = "dealt")
       => /\ \A p \in Players : player[p].is_active =>
                /\ Len(hand'[p]) = 7
                /\ \A i \in 1..7 : \E j \in 1..Len(deck) : hand'[p][i] = deck[j]
          /\ \A p \in Players : ~player[p].is_active => hand'[p] = hand[p]
          /\ Len(can') = Len(deck) - 7 * NumActive
          /\ can' = SubSeq(deck, 1, Len(deck) - 7 * NumActive)
          /\ deck' = <<>>]_vars

C9_Witness ==
    /\ pc = "menu"
    /\ msg = "dealt"
    /\ NumActive = 2
    /\ Len(hand[1]) = 7 /\ Len(hand[2]) = 7
    /\ Len(can) = 1
    /\ deck = <<>>

\* C10: deal_cards succeeds exactly when a player is active and the deck holds
\* at least 7 cards per active player; a failed deal changes no hand, nor the
\* stock, nor the deck; a deal of exactly 7 cards per active player succeeds
\* and empties the stock.
C10_DealGuard ==
    [][DealStep
       => /\ (msg' = "dealt") <=> (NumActive >= 1 /\ Len(deck) >= 7 * NumActive)
          /\ msg' # "dealt" => (hand' = hand /\ can' = can /\ deck' = deck)
          /\ (NumActive >= 1 /\ Len(deck) = 7 * NumActive)
                => (msg' = "dealt" /\ can' = <<>>)]_vars

C10_Witness ==
    /\ pc = "menu"
    /\ msg = "not_enough_cards"
    /\ NumActive = 2
    /\ Len(deck) = 13
    /\ Len(hand[1]) = 3
    /\ can # <<>>

\* the number of cards a player draws from a stock of n cards, as stated
StatedDraw(n) == IF n >= 2 THEN 2 ELSE n

\* the cards at positions lo..hi of the stock
StockCards(lo, hi) == {can[i] : i \in lo..hi}

\* C11: a resolved trick is followed by exactly one run of replenish_hands, which
\* never fails: player 1 takes min(2, stock) cards off the stock, then player 2
\* takes min(2, what is left); the cards taken leave the stock and join the
\* hand of the player who took them, and nothing else moves a card after the
\* trick was resolved.
C11_ReplenishAfterTrick ==
    [][/\ Resolves => (hand' = hand /\ can' = can)
       /\ (pc = "replenish_hands") =>
             LET n1 == StatedDraw(Len(can))
                 n2 == StatedDraw(Len(can) - n1)
             IN  /\ pc' = "menu"
                 /\ msg' = "replenished"
                 /\ Len(can') = Len(can) - n1 - n2
                 /\ Len(can') >= 0
                 /\ can' = SubSeq(can, 1, Len(can'))
                 /\ Len(hand'[1]) = Len(hand[1]) + n1
                 /\ Len(hand'[2]) = Len(hand[2]) + n2
                 /\ \A p \in Players : SubSeq(hand'[p], 1, Len(hand[p])) = hand[p]
                 /\ {hand'[1][i] : i \in Len(hand[1]) + 1..Len(hand'[1])}
                       = StockCards(Len(can) - n1 + 1, Len(can))
                 /\ {hand'[2][i] : i \in Len(hand[2]) + 1..Len(hand'[2])}
                       = StockCards(Len(can') + 1, Len(can) - n1)
       /\ (pc' = "menu" /\ msg' = "replenished") => pc = "replenish_hands"]_vars

\* the stock held one card: player 1 drew it, player 2 drew nothing
C11_Witness ==
    /\ pc = "menu"
    /\ msg = "replenished"
    /\ resolved = 1
    /\ Len(hand[1]) = 6
    /\ Len(hand[2]) = 5
    /\ can = <<>>

\* C12: claim_victory(player) succeeds exactly when the player's hand holds at
\* least 27 cards: 27 cards succeed, 26 cards fail with the too-few-cards outcome.
C12_ClaimThreshold ==
    [][\A p \in Players :
          (pc = "menu" /\ msg' \in {ClaimValid(p), ClaimInvalid(p)}) =>
             /\ msg' = ClaimValid(p) <=> Len(hand[p]) >= 27
             /\ Len(hand[p]) = 27 => msg' = ClaimValid(p)
             /\ Len(hand[p]) = 26 => msg' = ClaimInvalid(p)]_vars

\* a claim on a hand of exactly 27 cards was found valid
C12_Witness ==
    /\ pc = "menu"
    /\ msg = ClaimValid(1)
    /\ Len(hand[1]) = 27

\* a step of menu choice C that ran the challenge of player c against the claimant
ChallengeStep(c) ==
    /\ pc = "menu"
    /\ msg' \in {WinsByChallenge(c), ChallengeFailed(c)}

VictoryOutcomes ==
    UNION {{ClaimValid(p), ClaimInvalid(p), ChallengeValid(p), ChallengeInvalid(p),
            Wins(p), WinsByChallenge(p), ChallengeFailed(p)} : p \in Players}

\* C14: claim_victory and challenge_victory only read: the hands, the stock, the
\* trick record and the trick history are the same after the call.
C14_VictoryReadOnly ==
    [][(pc = "menu" /\ msg' \in VictoryOutcomes) =>
          /\ hand' = hand
          /\ can' = can
          /\ current_trick' = current_trick
          /\ played_tricks' = played_tricks]_vars

\* a valid claim has been made in a game that still holds a stock
C14_Witness ==
    /\ msg \in {ClaimValid(p) : p \in Players}
    /\ \E p \in Players : Len(hand[p]) >= 27 /\ can # <<>>

\* the outcomes with which src/game.py rejects the input of a move
RejectionsV1 ==
    {"rejected_count", "rejected_not_numeric", "rejected_out_of_range",
     "rejected_exception", "rejected_declaration"}

\* a step of leader_move or follower_move of src/game.py, and the player moving
LeaderStepV1 == pc = "menu" /\ msg' \in RejectionsV1 \cup {"leader_played"}
FollowerStepV1 == pc = "follower_move" /\ msg' \in RejectionsV1 \cup {"follower_played"}
MoverV1 == IF pc = "menu" THEN DetermineLeader ELSE IdentifyFollower

\* the cards of a sequence of cards
CardsOf(cards) == {cards[i] : i \in 1..Len(cards)}

\* C15 as stated: a leader move rejected for a validation error (index out of
\* range, wrong number of indices, duplicate index, invalid declaration) leaves
\* both hands, the stock and the trick record as they were.
C15_RejectedLeaderMoveChangesNothing ==
    [][(LeaderStepV1 /\ msg' \in RejectionsV1) =>
          /\ hand' = hand
          /\ can' = can
          /\ current_trick' = current_trick]_vars

\* C16 as stated: a selection of one index twice is never accepted: a pair put in
\* the trick record holds two different cards, taken from two different
\* positions of the hand, and exactly these two cards left the hand.
C16_PairIsTwoDistinctCards ==
    [][(LeaderStepV1 \/ FollowerStepV1) /\ msg' \in {"leader_played", "follower_played"} =>
          LET pair == IF pc = "menu" THEN current_trick'.leader_cards
                                     ELSE current_trick'.follower_cards
          IN  /\ pair[1] # pair[2]
              /\ CardsOf(pair) \subseteq CardsOf(hand[MoverV1])
              /\ CardsOf(hand'[MoverV1]) = CardsOf(hand[MoverV1]) \ CardsOf(pair)]_vars

\* C17 as stated: a move takes its cards out of the hand all at once: a leader
\* or follower move that succeeds leaves the hand two cards shorter, one that
\* fails leaves the hand as it was.
C17_RemovalAllOrNothing ==
    [][(LeaderStepV1 \/ FollowerStepV1) =>
          IF msg' \in {"leader_played", "follower_played"}
            THEN Len(hand'[MoverV1]) = Len(hand[MoverV1]) - 2
            ELSE hand' = hand]_vars

\* C18: register_player on a slot that is already registered overwrites nothing:
\* the username and the active flag stay as they are and the call reports that
\* the slot is taken; a registered slot keeps its username in every later step.
C18_RegistrationIdempotent ==
    [][/\ \A p \in Players : player[p].is_active => player'[p] = player[p]
       /\ (pc = "menu" /\ msg' = "already_registered") =>
             /\ player' = player
             /\ \E p \in Players : player[p].is_active]_vars

\* player 1, registered as ann, was offered for registration again
C18_Witness ==
    /\ msg = "already_registered"
    /\ player[1] = [username |-> "ann", is_active |-> TRUE]
    /\ ~player[2].is_active

\* C19: a player who is not registered holds no cards and has never been the
\* leader or the follower of a trick, neither of the one on the table nor of one
\* in the history.
C19_UnregisteredPlayerIdle ==
    \A p \in Players :
        ~player[p].is_active =>
            /\ hand[p] = <<>>
            /\ player[p].username = NoName
            /\ current_trick.leader # p
            /\ current_trick.follower # p
            /\ \A i \in 1..Len(played_tricks) :
                  /\ played_tricks[i].leader # NoName
                  /\ played_tricks[i].follower # NoName

\* player 1 led a trick alone: player 2 is not registered and the trick stopped
C19_Witness ==
    /\ dealt
    /\ pc = "menu"
    /\ msg = "both_must_be_registered"
    /\ current_trick.leader = 1
    /\ current_trick.leader_cards # <<>>
    /\ ~player[2].is_active
    /\ hand[2] = <<>>

\* the number of places that hold card c: positions in the hands, the stock, the
\* pairs of the trick on the table and the pairs of the history
Occurrences(cards, x) == Cardinality({i \in 1..Len(cards) : cards[i] = x})
HistoryOccurrences(c) ==
    Cardinality({ij \in (1..Len(played_tricks)) \X (1..2) :
                    played_tricks[ij[1]].leader_cards[ij[2]] = CardStr(c)})
      + Cardinality({ij \in (1..Len(played_tricks)) \X (1..2) :
                        played_tricks[ij[1]].follower_cards[ij[2]] = CardStr(c)})
Places(c) ==
    Occurrences(hand[1], c) + Occurrences(hand[2], c) + Occurrences(can, c)
      + Occurrences(current_trick.leader_cards, c)
      + Occurrences(current_trick.follower_cards, c)
      + HistoryOccurrences(c)

\* C20 as stated: within a round every card of the deck is in exactly one place:
\* a hand, the stock, a pair of the trick in progress or a pair of a trick in the
\* history.
C20_EveryCardInOnePlace ==
    dealt => \A c \in CardsOf(create_deck) : Places(c) = 1

\* a pair with its two cards swapped when flag is true
SwapIf(flag, pair) == IF flag THEN <<pair[2], pair[1]>> ELSE pair

\* C21: a pair compared against itself always follows the pattern, whether it
\* is a Flush, a Color or a Mixed pair.
C21_PairMatchesItself ==
    [][(pc = "evaluate_trick"
          /\ current_trick.follower_cards = current_trick.leader_cards)
       => msg' = "pattern_matched"]_vars

\* a Mixed pair (Hearts, Spades) was matched against itself
C21_Witness ==
    /\ pc = "replenish_hands"
    /\ msg = "pattern_matched"
    /\ played_tricks # <<>>
    /\ LastTrick.leader_cards = LastTrick.follower_cards
    /\ LastTrick.leader_cards[1][3] = "Hearts"
    /\ LastTrick.leader_cards[2][3] = "Spades"

\* C22: the pattern check takes each pair as unordered: the outcome reported
\* for a trick is the outcome for the same trick with the leader's cards
\* swapped, the follower's cards swapped, or both.
C22_PatternIgnoresOrder ==
    [][(pc = "evaluate_trick") =>
          \A a, b \in BOOLEAN :
              (msg' = "pattern_matched")
                = validate_suit_pattern(SwapIf(a, current_trick.leader_cards),
                                        SwapIf(b, current_trick.follower_cards))]_vars

\* a follower pair in the order black, red was matched against a Mixed pair in
\* the order red, black
C22_Witness ==
    /\ pc = "replenish_hands"
    /\ msg = "pattern_matched"
    /\ played_tricks # <<>>
    /\ LastTrick.leader_cards[1][3] = "Hearts"
    /\ LastTrick.leader_cards[2][3] = "Clubs"
    /\ LastTrick.follower_cards[1][3] = "Spades"
    /\ LastTrick.follower_cards[2][3] = "Diamonds"

\* C23 as stated: right after a new round was started from the menu the trick
\* history is empty and the trick record holds nothing of the previous round:
\* no next leader, no pair, no declaration.
C23_NewRoundClearsTrickData ==
    [][(pc = "menu" /\ msg' = "dealt") =>
          /\ played_tricks' = <<>>
          /\ current_trick' = EmptyTrick]_vars

\* C28 as stated: a round start with no registered player reports that there are
\* no players and leaves the hands, the stock, the temporary deck, the trick
\* record and the history as they were, through start_new_round and through the
\* menu alike.
C28_NoPlayersRoundStartChangesNothing ==
    [][(pc = "menu" /\ active_players = <<>> /\ msg' = "no_players") =>
          /\ hand' = hand
          /\ can' = can
          /\ deck' = deck
          /\ current_trick' = current_trick
          /\ played_tricks' = played_tricks]_vars

\* a step that deals a round
RoundStart == pc = "menu" /\ msg' = "dealt"

C25_TrickRecordCleared ==
    [][Resolves =>
          /\ current_trick'.leader \in Players
          /\ player[current_trick'.leader].username
                = played_tricks'[Len(played_tricks')].winner
          /\ current_trick'.leader_cards = <<>>
          /\ current_trick'.follower_cards = <<>>
          /\ current_trick'.follower = NoPlayer
          /\ current_trick'.declaration = ""
          /\ DOMAIN current_trick' =
                {"leader", "leader_cards", "declaration", "follower", "follower_cards"}]_vars

\* a trick the follower (bob) won was resolved: the record names player 2 only
C25_Witness ==
    /\ pc = "replenish_hands"
    /\ played_tricks # <<>>
    /\ LastTrick.winner = "bob"
    /\ current_trick = [leader |-> 2, leader_cards |-> <<>>, declaration |-> "",
                        follower |-> NoPlayer, follower_cards |-> <<>>]

\* C26: the steps of a trick come in one order. The follower moves only right
\* after the leader's move of the same trick succeeded; the trick is evaluated
\* only right after the follower's move succeeded, with both pairs on the
\* table; the hands are replenished only right after the evaluation, once; and
\* no other operation runs between the steps of a trick.
C26_TrickStepsInOrder ==
    [][/\ (pc = "follower_move") =>
             /\ msg = "leader_played"
             /\ current_trick.leader_cards # <<>>
             /\ current_trick.follower_cards = <<>>
       /\ (pc = "evaluate_trick") =>
             /\ msg = "follower_played"
             /\ current_trick.leader_cards # <<>>
             /\ current_trick.follower_cards # <<>>
             /\ current_trick.follower # current_trick.leader
       /\ (pc = "replenish_hands") =>
             /\ msg \in {"pattern_matched", "pattern_failed"}
             /\ pc' = "menu"
       /\ (pc' = "follower_move") => (pc = "menu" /\ msg' = "leader_played")
       /\ (pc' = "evaluate_trick") => (pc = "follower_move" /\ msg' = "follower_played")
       /\ (pc' = "replenish_hands") => pc = "evaluate_trick"
       /\ (msg' = "replenished") => pc = "replenish_hands"
       /\ (pc # "menu") => (player' = player /\ deck' = deck /\ dealt' = dealt)]_vars

\* a whole trick went through its four steps
C26_Witness ==
    /\ pc = "menu"
    /\ msg = "replenished"
    /\ resolved = 1
    /\ moves = 2
    /\ Len(played_tricks) = 1

\* a follower move that stops at a precondition
FollowerPreconditionFails ==
    /\ pc = "follower_move"
    /\ msg' \in {"both_must_be_registered", "follower_not_enough_cards"}

\* C27 as stated: a follower move that fails a precondition changes no hand and
\* no stock and leaves the trick at the leader's move, and the leader's pair
\* stays in the trick record from then on (until the round is dealt again), so
\* that the trick can be completed later.
C27_FailedFollowerKeepsLeaderPair ==
    [][/\ FollowerPreconditionFails =>
             /\ hand' = hand
             /\ can' = can
             /\ current_trick' = current_trick
             /\ current_trick'.leader_cards # <<>>
       /\ (pc = "menu" /\ current_trick.leader_cards # <<>> /\ ~RoundStart) =>
             current_trick'.leader_cards = current_trick.leader_cards]_vars

\* C29: between two deals the stock only shrinks: a step that is not a deal
\* leaves in the stock a leading part of what it held, so no card is added and
\* no played or won card comes back.
C29_StockOnlyShrinks ==
    [][(msg' # "dealt") =>
          /\ Len(can') <= Len(can)
          /\ can' = SubSeq(can, 1, Len(can'))]_vars

\* two tricks were resolved and replenished: the stock went from 38 to 30 cards
C29_Witness ==
    /\ pc = "menu"
    /\ msg = "replenished"
    /\ resolved = 2
    /\ Len(can) = 30

\* the winner of a trick as a function of the leader's pair, the follower's pair
\* and the declaration alone: "leader" or "follower"
StatedWinnerRole(leaderPair, followerPair, declaration) ==
    LET l1 == StatedRank[leaderPair[1].rank]
        l2 == StatedRank[leaderPair[2].rank]
        f1 == StatedRank[followerPair[1].rank]
        f2 == StatedRank[followerPair[2].rank]
    IN  IF ~StatedMatch(leaderPair, followerPair) THEN "leader"
        ELSE IF declaration = "high"
          THEN IF l1 > f1 THEN "leader"
               ELSE IF l1 < f1 THEN "follower"
               ELSE IF l2 >= f2 THEN "leader" ELSE "follower"
          ELSE IF l2 < f2 THEN "leader"
               ELSE IF l2 > f2 THEN "follower"
               ELSE IF l1 <= f1 THEN "leader" ELSE "follower"

\* C30: the winner of a trick depends on the leader's pair, the follower's pair
\* and the declaration only: whoever leads, whatever the usernames, the hands,
\* the stock and the history, evaluate_trick gives the trick to the same side.
C30_ResolutionDeterministic ==
    [][Resolves =>
          LET role == StatedWinnerRole(current_trick.leader_cards,
                                       current_trick.follower_cards,
                                       current_trick.declaration)
              winner == IF role = "leader" THEN current_trick.leader
                                           ELSE current_trick.follower
          IN  /\ current_trick'.leader = winner
              /\ played_tricks'[Len(played_tricks')].winner = player[winner].username]_vars

\* a trick led by player 2 was won by the follower, player 1 (named bob), with
\* cards in the hands and the stock and an earlier trick in the history
C30_Witness ==
    /\ pc = "replenish_hands"
    /\ Len(played_tricks) = 2
    /\ can # <<>>
    /\ hand[1] # <<>>
    /\ player[1].username = "bob"
    /\ LastTrick.follower = "bob"
    /\ LastTrick.winner = "bob"
    /\ current_trick.leader = 1

\* the higher and the lower rank of a pair, by the stated rank values
HigherRank(pair) == Max(StatedRank[pair[1].rank], StatedRank[pair[2].rank])
LowerRank(pair) == Min(StatedRank[pair[1].rank], StatedRank[pair[2].rank])

\* C31 as stated: with a matched pattern a High trick goes to the player whose
\* pair has the higher highest card and a Low trick to the player whose pair has
\* the lower lowest card, wherever these cards stood in the hand.
C31_HighestAndLowestCardDecide ==
    [][(Resolves /\ Matched) =>
          /\ (current_trick.declaration = "high" =>
                /\ HigherRank(current_trick.leader_cards)
                      > HigherRank(current_trick.follower_cards)
                      => WinnerIs(current_trick.leader)
                /\ HigherRank(current_trick.leader_cards)
                      < HigherRank(current_trick.follower_cards)
                      => WinnerIs(current_trick.follower))
          /\ (current_trick.declaration = "low" =>
                /\ LowerRank(current_trick.leader_cards)
                      < LowerRank(current_trick.follower_cards)
                      => WinnerIs(current_trick.leader)
                /\ LowerRank(current_trick.leader_cards)
                      > LowerRank(current_trick.follower_cards)
                      => WinnerIs(current_trick.follower))]_vars


\* what a successful claim or challenge reports
VictoryReports ==
    UNION {{ClaimValid(p), ChallengeValid(p), Wins(p), WinsByChallenge(p)} : p \in Players}

\* C32: in every reachable state of the menu-driven game each hand holds at most
\* 7 cards, so nobody meets the threshold of 27, no claim and no challenge
\* succeeds and the game never ends with a winner.
C32_VictoryUnreachable ==
    /\ \A p \in Players : Len(hand[p]) <= 7 /\ ~HasEnoughCards(p)
    /\ MenuClaimants = {}
    /\ msg \notin VictoryReports
    /\ pc # "game_over"

\* C32 witness: option V was refused ("no claimant") when player 1 held a full
\* hand of 7 cards again after a resolved and replenished trick
C32_Witness ==
    /\ msg = "no_claimant"
    /\ resolved >= 1
    /\ Len(hand[1]) = 7
    /\ pc = "menu"


\* a step of leader_move that played a pair
LeaderStep == pc = "menu" /\ pc' = "follower_move" /\ msg' = "leader_played"

LeaderAttempt ==
    /\ pc = "menu"
    /\ msg' \in {"leader_played", "leader_not_enough_cards", "no_players"}

\* C34: after a deal at most 12 tricks are resolved; once 12 are resolved every
\* play_trick fails at the follower move because the follower holds fewer than 2
\* cards, and each attempt still takes 2 cards from the leader until the leader
\* holds fewer than 2 too.
C34_TwelveTricksPerRound ==
    [][/\ resolved <= 12 /\ resolved' <= 12
       /\ (resolved = 12 /\ pc = "follower_move") =>
             /\ Len(hand[IdentifyFollower]) < 2
             /\ msg' = "follower_not_enough_cards"
             /\ pc' = "menu"
             /\ resolved' = 12
       /\ (resolved = 12 /\ LeaderAttempt) =>
             IF Len(hand[DetermineLeader]) >= 2
               THEN /\ Len(hand'[DetermineLeader]) = Len(hand[DetermineLeader]) - 2
                    /\ hand'[IdentifyFollower'] = hand[IdentifyFollower']
                    /\ pc' = "follower_move"
               ELSE /\ msg' = "leader_not_enough_cards"
                    /\ hand' = hand
                    /\ pc' = "menu"]_vars

\* C34 witness: 12 tricks were resolved, a 13th attempt took the leader's last
\* pair and failed at the follower move, leaving one card in each hand
C34_Witness ==
    /\ resolved = 12
    /\ msg = "follower_not_enough_cards"
    /\ pc = "menu"
    /\ Len(hand[1]) = 1
    /\ Len(hand[2]) = 1
    /\ can = <<>>


\* a step of leader_move or follower_move that played a pair, and that pair
MoveStep ==
    \/ pc = "menu" /\ msg' = "leader_played"
    \/ pc = "follower_move" /\ msg' = "follower_played"
PlayedPair(t) == IF pc = "menu" THEN t.leader_cards ELSE t.follower_cards

\* a hand without the cards at positions i < j
WithoutPositions(cards, i, j) ==
    [k \in 1..(Len(cards) - 2) |->
        cards[IF k < i THEN k ELSE IF k < j - 1 THEN k + 1 ELSE k + 2]]

\* the trick in which the follower's pair is the one selected by the typed numbers
TrickWithFollowerPair(cards, n1, n2) ==
    [current_trick EXCEPT !.follower = IdentifyFollower,
                          !.follower_cards = SelectedCards(cards, Indices(n1, n2))]

\* C35: a move takes the cards at two positions i < j of the hand and holds them
\* as the pair (card at j, card at i); typing "i j" or "j i" is accepted alike,
\* removes the same two cards and gives the same ordered pair, in both engines,
\* so the trick is resolved for the same winner.
C35_IndexOrderIrrelevant ==
    [][MoveStep =>
         LET m == MoverV1
             h == hand[m]
             pair == PlayedPair(current_trick')
         IN  \E i, j \in 1..Len(h) :
               /\ i < j
               /\ pair = <<h[j], h[i]>>
               /\ hand'[m] = WithoutPositions(h, i, j)
               /\ \A typed \in {<<i, j>>, <<j, i>>} :
                     /\ ValidSelection(h, Indices(typed[1], typed[2]))
                     /\ SelectedCards(h, Indices(typed[1], typed[2])) = pair
                     /\ RemoveSelected(h, Indices(typed[1], typed[2])) = hand'[m]
                     /\ SelectV1(h, [kind |-> "numbers", n1 |-> typed[1], n2 |-> typed[2]])
                           = [status |-> "selected", hand |-> hand'[m], selected |-> pair]
               /\ pc = "follower_move" =>
                     /\ TrickWinner(TrickWithFollowerPair(h, i, j))
                           = TrickWinner(TrickWithFollowerPair(h, j, i))
                     /\ TrickWinnerV1(TrickWithFollowerPair(h, i, j))
                           = TrickWinnerV1(TrickWithFollowerPair(h, j, i))]_vars

\* C35 witness: both players have played a pair out of their hands of 7 and the
\* follower's pair beats the leader's
C35_Witness ==
    /\ pc = "evaluate_trick"
    /\ msg = "follower_played"
    /\ Len(hand[1]) = 5
    /\ Len(hand[2]) = 5
    /\ TrickWinner(current_trick) = current_trick.follower


\* C36: whenever the follower's pair matches the leader's pattern, evaluate_trick
\* of toucan_game/game.py resolves the trick for the winner that evaluate_trick
\* of src/game.py picks for the same pairs and declaration; the two engines
\* differ only on tricks whose pattern is not matched.
C36_EnginesAgreeOnMatchedTricks ==
    [][(Resolves /\ Matched) => WinnerIs(TrickWinnerV1(current_trick))]_vars

\* C36 witness: a trick with a matched pattern was resolved for the follower, the
\* first cards being tied and the second cards deciding
C36_Witness ==
    /\ pc = "replenish_hands"
    /\ msg = "pattern_matched"
    /\ LastTrick.winner = LastTrick.follower
    /\ LastTrick.declaration = "high"
    /\ LastTrick.leader_cards[1][1] = LastTrick.follower_cards[1][1]

====
